---- MODULE Spec2Model ----
(***************************************************************************)
(* Smart diet tracker: the daily-summary maintenance of the log handlers   *)
(* (logFood, logFluid, deleteFoodLog, deleteFluidLog), the goals handlers  *)
(* (createDailyGoals, updateDailyGoals) and the progress aggregator        *)
(* (getUserDailyProgress), over the relational store of db/schema.         *)
(*                                                                         *)
(* Every handler is a process; each `await db....execute()` of a handler   *)
(* is one atomic step, so that calls in flight interleave at the store     *)
(* statements exactly as the handlers do.                                  *)
(*                                                                         *)
(* Quantities held in numeric(8,2) columns are integers counting           *)
(* hundredths (78.00 kcal is 7800).  A per-log nutrient contribution       *)
(* rate * portion / 100 is held as the integer rate_h * portion_h, which   *)
(* counts millionths (one hundredth is Hundred * Hundred millionths), so   *)
(* that the store's rounding to two decimals is computed, not assumed.     *)
(* JavaScript double arithmetic is modelled as exact decimal arithmetic.   *)
(* Handler inputs (portion_size, volume, goals) carry at most two          *)
(* decimals, for which number -> string -> numeric(8,2) is exact.          *)
(*                                                                         *)
(* A timestamp is the number of milliseconds since 00:00:00.000Z of the    *)
(* first modelled calendar day; a calendar date is a day index.            *)
(***************************************************************************)
EXTENDS Integers, FiniteSets, Sequences, TLC

\* ---------------------------------------------------------------- bounds
MaxProcs == 2        \* handler calls in flight at once
MaxLogs == 3         \* food_logs and fluid_logs rows ever inserted
MaxGoals == 2        \* daily_goals.id values handed out
MaxTicks == 2        \* clock advances
MaxQueryLen == 3
MaxProgressLogs == 2  \* log rows inserted alongside goals and progress calls

\* ------------------------------------------------------ program constants
Hundred == 100                \* portion_size / 100, rate / 100
NumericMax == 99999999        \* numeric(8,2): at most 999999.99
MsPerDay == 86400000          \* one UTC calendar day of a Date, in ms
EndOfDayMs == 86399999        \* T23:59:59.999Z
MsPerHour == 3600000          \* one hour of a Date, in ms

Procs == 1..MaxProcs

\* usersTable rows (only the id matters to the handlers modelled)
usersTable == {1, 2}

\* foodItemsTable: the catalogue (per-100g rates in hundredths)
\* id 1: an apple; id 3: an oil, 900 kcal and 100 g of fat in 100 g
\* names are sequences of characters
foodItemsTable ==
  { [id |-> 1, name |-> <<"A", "p", "p", "l", "e">>,
     calories_per_100g |-> 5200, protein_per_100g |-> 30,
     carbs_per_100g |-> 1400, fats_per_100g |-> 20],
    [id |-> 3, name |-> <<"O", "i", "l">>,
     calories_per_100g |-> 90000, protein_per_100g |-> 0,
     carbs_per_100g |-> 0, fats_per_100g |-> 10000] }

\* the dates asked of getUserDailyProgress: 1970-01-01 and 1970-01-02
Dates == {0, 1}
\* portion_size inputs: 5 g and 150 g; volume inputs: 250 ml and 600000 ml
Portions == {500, 15000}
Volumes == {25000, 60000000}

Nutrients == {"total_calories", "total_protein", "total_carbs", "total_fats"}

VARIABLES
  foodLogsTable,        \* rows [id, user_id, food_item_id, portion_size, consumed_at]
  fluidLogsTable,       \* rows [id, user_id, volume, consumed_at]
  dailySummariesTable,  \* rows [id, user_id, summary_date, total_*]
  dailyGoalsTable,      \* rows [id, user_id, daily_*, created_at, updated_at]
  nextFoodLogId,        \* serial('id') of food_logs
  nextFluidLogId,       \* serial('id') of fluid_logs
  nextSummaryId,        \* serial('id') of daily_summaries
  nextGoalsId,          \* serial('id') of daily_goals
  now,                  \* the clock: new Date() and defaultNow()
  pc,                   \* pc[p]: where call p stands
  call,                 \* call[p]: the handler and its input
  loc,                  \* loc[p]: the handler's local constants
  result,               \* result[p]: what the call returned or threw
  lastLog               \* observer: the latest log call and the call reversing it

tables == <<foodLogsTable, fluidLogsTable, dailySummariesTable, dailyGoalsTable>>
serials == <<nextFoodLogId, nextFluidLogId, nextSummaryId, nextGoalsId>>
vars == <<foodLogsTable, fluidLogsTable, dailySummariesTable, dailyGoalsTable,
          nextFoodLogId, nextFluidLogId, nextSummaryId, nextGoalsId,
          now, pc, call, loc, result, lastLog>>

\* ---------------------------------------------------------- pure helpers

\* consumedAt.toISOString().split('T')[0]: the UTC calendar date
SummaryDate(consumedAt) == consumedAt \div MsPerDay

\* n / d rounded to the nearest integer, ties away from zero (PostgreSQL numeric)
RoundHalfAway(n, d) ==
  IF n >= 0 THEN (2 * n + d) \div (2 * d)
            ELSE -((2 * (-n) + d) \div (2 * d))

\* a decimal given in millionths, as the numeric(8,2) column stores it (hundredths)
ToNumeric(micro) == RoundHalfAway(micro, Hundred * Hundred)

\* a stored hundredths value as the exact decimal parseFloat returns (millionths)
ParseFloat(stored) == stored * Hundred * Hundred

\* numeric(8,2) rejects a value of more than six integer digits
NumericFits(stored) == stored <= NumericMax /\ -stored <= NumericMax

\* per_100g rate * (portion_size / 100), in millionths
Scaled(rate, portionSize) == rate * portionSize

Contribution(foodItem, portionSize) ==
  [total_calories |-> Scaled(foodItem.calories_per_100g, portionSize),
   total_protein  |-> Scaled(foodItem.protein_per_100g, portionSize),
   total_carbs    |-> Scaled(foodItem.carbs_per_100g, portionSize),
   total_fats     |-> Scaled(foodItem.fats_per_100g, portionSize)]

\* whole units of the rate times whole grams of the portion, in hundredths: the
\* contribution is no less than this (used for amounts too large to hold exactly)
ContributionFloor(foodItem, portionSize) ==
  [total_calories |-> (foodItem.calories_per_100g \div Hundred) * (portionSize \div Hundred),
   total_protein  |-> (foodItem.protein_per_100g \div Hundred) * (portionSize \div Hundred),
   total_carbs    |-> (foodItem.carbs_per_100g \div Hundred) * (portionSize \div Hundred),
   total_fats     |-> (foodItem.fats_per_100g \div Hundred) * (portionSize \div Hundred)]

\* the same lookup without the date condition
SummariesOfUser(userId, summaryDate) ==
  {s \in dailySummariesTable : s.user_id = userId}

\* where(and(eq(user_id, userId), eq(summary_date, summaryDate)))
SummariesFor(userId, summaryDate) ==
  {s \in dailySummariesTable : s.user_id = userId /\ s.summary_date = summaryDate}

\* input.consumed_at || new Date()   (-1: consumed_at omitted)
ConsumedAt(input) == IF input.consumed_at = -1 THEN now ELSE input.consumed_at

NoResult == [kind |-> "none"]
NoLocals == [none |-> TRUE]
Thrown(msg) == [kind |-> "error", error |-> msg]
Returned(v) == [kind |-> "value", value |-> v]

\* The observer follows one log call and the delete call that comes straight
\* after it for the log it returned; it is switched off where calls overlap.
Unobserved == [stage |-> "off", op |-> "none", user_id |-> 0, summary_date |-> 0,
               log_id |-> 0, before |-> {}]
NoPair == [Unobserved EXCEPT !.stage = "none"]

ObservedBegin(op, input) ==
  IF lastLog.stage = "off" THEN lastLog
  ELSE IF op \in {"logFood", "logFluid"}
    THEN [stage |-> "creating", op |-> op, user_id |-> input.user_id,
          summary_date |-> SummaryDate(ConsumedAt(input)), log_id |-> 0,
          before |-> SummariesFor(input.user_id, SummaryDate(ConsumedAt(input)))]
  ELSE IF /\ lastLog.stage = "created"
          /\ \/ op = "deleteFoodLog" /\ lastLog.op = "logFood"
             \/ op = "deleteFluidLog" /\ lastLog.op = "logFluid"
          /\ input.log_id = lastLog.log_id
          /\ input.user_id = lastLog.user_id
    THEN [lastLog EXCEPT !.stage = "reversing"]
  ELSE NoPair

ObservedFinish(r) ==
  IF lastLog.stage = "creating"
    THEN IF r.kind = "value"
           THEN [lastLog EXCEPT !.stage = "created", !.log_id = r.value.id]
           ELSE NoPair
  ELSE IF lastLog.stage = "reversing"
    THEN IF r.kind = "value" /\ r.value
           THEN [lastLog EXCEPT !.stage = "reversed"]
           ELSE NoPair
  ELSE lastLog

\* the call returns or throws: the slot keeps the outcome, the locals are gone
Finish(p, r) ==
  /\ pc' = [pc EXCEPT ![p] = "done"]
  /\ result' = [result EXCEPT ![p] = r]
  /\ loc' = [loc EXCEPT ![p] = NoLocals]
  /\ lastLog' = ObservedFinish(r)

\* the call goes on to its next store statement with these locals
Goto(p, label, locals) ==
  /\ pc' = [pc EXCEPT ![p] = label]
  /\ loc' = [loc EXCEPT ![p] = locals]
  /\ UNCHANGED <<result, lastLog>>

Free(p) == pc[p] \in {"idle", "done"}

Begin(p, op, input, label) ==
  /\ Free(p)
  /\ pc' = [pc EXCEPT ![p] = label]
  /\ call' = [call EXCEPT ![p] = [op |-> op, input |-> input]]
  /\ loc' = [loc EXCEPT ![p] = NoLocals]
  /\ result' = [result EXCEPT ![p] = NoResult]
  /\ lastLog' = ObservedBegin(op, input)
  /\ UNCHANGED <<tables, serials, now>>

Init ==
  /\ foodLogsTable = {}
  /\ fluidLogsTable = {}
  /\ dailySummariesTable = {}
  /\ dailyGoalsTable = {}
  /\ nextFoodLogId = 1
  /\ nextFluidLogId = 1
  /\ nextSummaryId = 1
  /\ nextGoalsId = 1
  /\ now = 43200000
  /\ pc = [p \in Procs |-> "idle"]
  /\ call = [p \in Procs |-> [op |-> "none"]]
  /\ loc = [p \in Procs |-> NoLocals]
  /\ result = [p \in Procs |-> NoResult]
  /\ lastLog = Unobserved

\* the same store, watched for a log call and the delete call that follows it
InitObserved ==
  /\ foodLogsTable = {}
  /\ fluidLogsTable = {}
  /\ dailySummariesTable = {}
  /\ dailyGoalsTable = {}
  /\ nextFoodLogId = 1
  /\ nextFluidLogId = 1
  /\ nextSummaryId = 1
  /\ nextGoalsId = 1
  /\ now = 43200000
  /\ pc = [p \in Procs |-> "idle"]
  /\ call = [p \in Procs |-> [op |-> "none"]]
  /\ loc = [p \in Procs |-> NoLocals]
  /\ result = [p \in Procs |-> NoResult]
  /\ lastLog = NoPair

\* ------------------------------------------------------------------ clock
Tick ==
  /\ now < 43200000 + MaxTicks
  /\ now' = now + 1
  /\ UNCHANGED <<tables, serials, pc, call, loc, result, lastLog>>

\* ---------------------------------------------------------------- logFood

\* calls that may still insert a log row
InsertsPending ==
  Cardinality({q \in Procs : pc[q] \in {"lf_user", "lf_item", "lf_insert",
                                        "lw_user", "lw_insert"}})

LogsInserted == (nextFoodLogId - 1) + (nextFluidLogId - 1)

LogFoodCall(p, input) ==
  /\ LogsInserted + InsertsPending < MaxLogs
  /\ Begin(p, "logFood", input, "lf_user")

\* select from users where id = input.user_id
LogFoodSelectUser(p) ==
  /\ pc[p] = "lf_user"
  /\ IF call[p].input.user_id \in usersTable
       THEN Goto(p, "lf_item", NoLocals)
       ELSE Finish(p, Thrown("UserNotFound"))
  /\ UNCHANGED <<tables, serials, now, call>>

\* the same lookup taking every id for one of the catalogue
FoodItemsByAnyId(id) == foodItemsTable

FoodItemsById(id) == {f \in foodItemsTable : f.id = id}

\* select from food_items where id = input.food_item_id
LogFoodSelectItem(p) ==
  /\ pc[p] = "lf_item"
  /\ IF FoodItemsById(call[p].input.food_item_id) # {}
       THEN \E f \in FoodItemsById(call[p].input.food_item_id) :
              Goto(p, "lf_insert", [foodItem |-> f])
       ELSE Finish(p, Thrown("FoodItemNotFound"))
  /\ UNCHANGED <<tables, serials, now, call>>

\* insert into food_logs ... returning
LogFoodInsert(p) ==
  /\ pc[p] = "lf_insert"
  /\ LET row == [id |-> nextFoodLogId,
                 user_id |-> call[p].input.user_id,
                 food_item_id |-> call[p].input.food_item_id,
                 portion_size |-> call[p].input.portion_size,
                 consumed_at |-> ConsumedAt(call[p].input)]
     IN /\ foodLogsTable' = foodLogsTable \cup {row}
        /\ Goto(p, "lf_summary", [foodItem |-> loc[p].foodItem, foodLog |-> row])
  /\ nextFoodLogId' = nextFoodLogId + 1
  /\ UNCHANGED <<fluidLogsTable, dailySummariesTable, dailyGoalsTable,
                 nextFluidLogId, nextSummaryId, nextGoalsId, now, call>>

\* updateDailySummary: select ... where user_id and summary_date, limit 1
LogFoodSelectSummary(p) ==
  /\ pc[p] = "lf_summary"
  /\ LET found == SummariesFor(call[p].input.user_id,
                               SummaryDate(loc[p].foodLog.consumed_at))
     IN IF found = {}
          THEN Goto(p, "lf_write",
                    [foodItem |-> loc[p].foodItem, foodLog |-> loc[p].foodLog,
                     existingSummary |-> {}])
          ELSE \E s \in found :
                 Goto(p, "lf_write",
                      [foodItem |-> loc[p].foodItem, foodLog |-> loc[p].foodLog,
                       existingSummary |-> {s}])
  /\ UNCHANGED <<tables, serials, now, call>>

\* the four totals logFood writes over an existing row: parseFloat(current) + delta
FoodTotalsAdded(cur, delta) ==
  [n \in Nutrients |-> ToNumeric(ParseFloat(cur[n]) + delta[n])]

\* the four totals of a row logFood creates: delta.toString()
FoodTotalsCreated(delta) == [n \in Nutrients |-> ToNumeric(delta[n])]

AllFit(totals) == \A n \in DOMAIN totals : NumericFits(totals[n])

\* the same update writing total_fluid as well, as 0
WithFoodTotalsAndNoFluid(summaries, id, new) ==
  { IF s.id = id
      THEN [s EXCEPT !.total_calories = new.total_calories,
                     !.total_protein = new.total_protein,
                     !.total_carbs = new.total_carbs,
                     !.total_fats = new.total_fats,
                     !.total_fluid = 0]
      ELSE s : s \in summaries }

\* update(dailySummariesTable).set(four totals).where(eq(id, currentSummary.id))
WithFoodTotals(summaries, id, new) ==
  { IF s.id = id
      THEN [s EXCEPT !.total_calories = new.total_calories,
                     !.total_protein = new.total_protein,
                     !.total_carbs = new.total_carbs,
                     !.total_fats = new.total_fats]
      ELSE s : s \in summaries }

\* insert(dailySummariesTable).values(...) of logFood: no fluid from food logging
NewFoodSummary(id, userId, summaryDate, new) ==
  [id |-> id, user_id |-> userId, summary_date |-> summaryDate,
   total_calories |-> new.total_calories, total_protein |-> new.total_protein,
   total_carbs |-> new.total_carbs, total_fats |-> new.total_fats,
   total_fluid |-> 0]

\* updateDailySummary: update the row read, by id, or insert a new row
LogFoodWriteSummary(p) ==
  /\ pc[p] = "lf_write"
  /\ LET log == loc[p].foodLog
         delta == Contribution(loc[p].foodItem, log.portion_size)
         exists == loc[p].existingSummary # {}
         cur == CHOOSE s \in loc[p].existingSummary : TRUE
         new == IF exists THEN FoodTotalsAdded(cur, delta)
                          ELSE FoodTotalsCreated(delta)
         least == ContributionFloor(loc[p].foodItem, log.portion_size)
         tooLarge == \E n \in Nutrients :
                       (IF exists THEN cur[n] ELSE 0) + least[n] > NumericMax
     IN IF tooLarge \/ ~AllFit(new)
          THEN (/\ UNCHANGED <<dailySummariesTable, nextSummaryId>>
                /\ Finish(p, Thrown("NumericOverflow")))
          ELSE IF exists
            THEN (/\ dailySummariesTable' =
                        WithFoodTotals(dailySummariesTable, cur.id, new)
                  /\ UNCHANGED nextSummaryId
                  /\ Finish(p, Returned(log)))
            ELSE (/\ dailySummariesTable' = dailySummariesTable \cup
                        {NewFoodSummary(nextSummaryId, call[p].input.user_id,
                                        SummaryDate(log.consumed_at), new)}
                  /\ nextSummaryId' = nextSummaryId + 1
                  /\ Finish(p, Returned(log)))
  /\ UNCHANGED <<foodLogsTable, fluidLogsTable, dailyGoalsTable,
                 nextFoodLogId, nextFluidLogId, nextGoalsId, now, call>>

\* --------------------------------------------------------------- logFluid
LogFluidCall(p, input) ==
  /\ LogsInserted + InsertsPending < MaxLogs
  /\ Begin(p, "logFluid", input, "lw_user")

\* select from users where id = input.user_id
LogFluidSelectUser(p) ==
  /\ pc[p] = "lw_user"
  /\ IF call[p].input.user_id \in usersTable
       THEN Goto(p, "lw_insert", NoLocals)
       ELSE Finish(p, Thrown("UserNotFound"))
  /\ UNCHANGED <<tables, serials, now, call>>

\* insert into fluid_logs ... returning
LogFluidInsert(p) ==
  /\ pc[p] = "lw_insert"
  /\ LET row == [id |-> nextFluidLogId,
                 user_id |-> call[p].input.user_id,
                 volume |-> call[p].input.volume,
                 consumed_at |-> ConsumedAt(call[p].input)]
     IN /\ fluidLogsTable' = fluidLogsTable \cup {row}
        /\ Goto(p, "lw_summary", [fluidLog |-> row])
  /\ nextFluidLogId' = nextFluidLogId + 1
  /\ UNCHANGED <<foodLogsTable, dailySummariesTable, dailyGoalsTable,
                 nextFoodLogId, nextSummaryId, nextGoalsId, now, call>>

\* select from daily_summaries where user_id and summary_date (no limit)
LogFluidSelectSummary(p) ==
  /\ pc[p] = "lw_summary"
  /\ LET found == SummariesFor(call[p].input.user_id,
                               SummaryDate(loc[p].fluidLog.consumed_at))
     IN IF found = {}
          THEN Goto(p, "lw_write", [fluidLog |-> loc[p].fluidLog,
                                    existingSummary |-> {}])
          ELSE \E s \in found :       \* existingSummary[0]
                 Goto(p, "lw_write", [fluidLog |-> loc[p].fluidLog,
                                      existingSummary |-> {s}])
  /\ UNCHANGED <<tables, serials, now, call>>

\* currentTotalFluid + input.volume: both carry two decimals, so does the sum,
\* and the column stores it as it is (hundredths)
FluidTotalAdded(cur, volume) == cur.total_fluid + volume

\* update(dailySummariesTable).set({total_fluid}).where(eq(id, existingSummary[0].id))
WithFluidTotalById(summaries, id, total) ==
  { IF s.id = id THEN [s EXCEPT !.total_fluid = total] ELSE s : s \in summaries }

\* insert(dailySummariesTable).values(...) of logFluid: nutrient totals '0'
NewFluidSummary(id, userId, summaryDate, volume) ==
  [id |-> id, user_id |-> userId, summary_date |-> summaryDate,
   total_calories |-> 0, total_protein |-> 0, total_carbs |-> 0,
   total_fats |-> 0, total_fluid |-> volume]

\* update the row read, by id, or insert a new row
LogFluidWriteSummary(p) ==
  /\ pc[p] = "lw_write"
  /\ LET log == loc[p].fluidLog
         exists == loc[p].existingSummary # {}
         cur == CHOOSE s \in loc[p].existingSummary : TRUE
         new == IF exists THEN FluidTotalAdded(cur, call[p].input.volume)
                          ELSE call[p].input.volume
     IN IF ~NumericFits(new)
          THEN (/\ UNCHANGED <<dailySummariesTable, nextSummaryId>>
                /\ Finish(p, Thrown("NumericOverflow")))
          ELSE IF exists
            THEN (/\ dailySummariesTable' =
                        WithFluidTotalById(dailySummariesTable, cur.id, new)
                  /\ UNCHANGED nextSummaryId
                  /\ Finish(p, Returned(log)))
            ELSE (/\ dailySummariesTable' = dailySummariesTable \cup
                        {NewFluidSummary(nextSummaryId, call[p].input.user_id,
                                         SummaryDate(log.consumed_at), new)}
                  /\ nextSummaryId' = nextSummaryId + 1
                  /\ Finish(p, Returned(log)))
  /\ UNCHANGED <<foodLogsTable, fluidLogsTable, dailyGoalsTable,
                 nextFoodLogId, nextFluidLogId, nextGoalsId, now, call>>

\* ---------------------------------------------------------- deleteFoodLog
DeleteFoodLogCall(p, input) == Begin(p, "deleteFoodLog", input, "df_select")

\* the same lookup without the ownership condition
FoodLogsMatchingAnyUser(logId, userId) ==
  {l \in foodLogsTable : l.id = logId}

\* where(and(eq(foodLogsTable.id, logId), eq(foodLogsTable.user_id, userId)))
FoodLogsMatching(logId, userId) ==
  {l \in foodLogsTable : l.id = logId /\ l.user_id = userId}

\* select food_logs inner join food_items where id and user_id
DeleteFoodLogSelect(p) ==
  /\ pc[p] = "df_select"
  /\ LET joined == { j \in [foodLog : FoodLogsMatching(call[p].input.log_id,
                                                         call[p].input.user_id),
                             foodItem : foodItemsTable] :
                       j.foodLog.food_item_id = j.foodItem.id }
     IN IF joined = {}
          THEN Finish(p, Returned(FALSE))
          ELSE \E j \in joined :       \* foodLogResult[0]
                 Goto(p, "df_delete",
                      [foodItem |-> j.foodItem,
                       portionSize |-> j.foodLog.portion_size,
                       summaryDate |-> SummaryDate(j.foodLog.consumed_at)])
  /\ UNCHANGED <<tables, serials, now, call>>

\* the same statement going on whatever the row count
DeleteFoodLogDeleteUnchecked(p) ==
  /\ pc[p] = "df_delete"
  /\ LET gone == FoodLogsMatching(call[p].input.log_id, call[p].input.user_id)
     IN /\ foodLogsTable' = foodLogsTable \ gone
        /\ Goto(p, "df_update", loc[p])
  /\ UNCHANGED <<fluidLogsTable, dailySummariesTable, dailyGoalsTable,
                 serials, now, call>>

\* delete from food_logs where id and user_id; rowCount 0 returns false
DeleteFoodLogDelete(p) ==
  /\ pc[p] = "df_delete"
  /\ LET gone == FoodLogsMatching(call[p].input.log_id, call[p].input.user_id)
     IN /\ foodLogsTable' = foodLogsTable \ gone
        /\ IF gone = {}
             THEN Finish(p, Returned(FALSE))
             ELSE Goto(p, "df_update", loc[p])
  /\ UNCHANGED <<fluidLogsTable, dailySummariesTable, dailyGoalsTable,
                 serials, now, call>>

\* the same update leaving the totals as they are
FoodTotalsKept(s, removed) == [n \in Nutrients |-> s[n]]

\* total - removed, evaluated by the store and rounded into the column
FoodTotalsSubtracted(s, removed) ==
  [n \in Nutrients |-> ToNumeric(ParseFloat(s[n]) - removed[n])]

\* update daily_summaries set total_x = total_x - removed where user_id and date
DeleteFoodLogUpdateSummary(p) ==
  /\ pc[p] = "df_update"
  /\ LET hit == SummariesFor(call[p].input.user_id, loc[p].summaryDate)
         removed == Contribution(loc[p].foodItem, loc[p].portionSize)
         least == ContributionFloor(loc[p].foodItem, loc[p].portionSize)
         tooLarge == \E s \in hit, n \in Nutrients : s[n] - least[n] < -NumericMax
     IN IF ~tooLarge /\ \A s \in hit : AllFit(FoodTotalsSubtracted(s, removed))
          THEN (/\ dailySummariesTable' =
                     { IF s \in hit
                         THEN LET new == FoodTotalsSubtracted(s, removed)
                              IN [s EXCEPT !.total_calories = new.total_calories,
                                           !.total_protein = new.total_protein,
                                           !.total_carbs = new.total_carbs,
                                           !.total_fats = new.total_fats]
                         ELSE s : s \in dailySummariesTable }
                /\ Finish(p, Returned(TRUE)))
          ELSE (/\ UNCHANGED dailySummariesTable
                /\ Finish(p, Thrown("NumericOverflow")))
  /\ UNCHANGED <<foodLogsTable, fluidLogsTable, dailyGoalsTable,
                 serials, now, call>>

\* --------------------------------------------------------- deleteFluidLog
DeleteFluidLogCall(p, input) == Begin(p, "deleteFluidLog", input, "dw_select")

\* the same selection without the condition on user_id
FluidLogsMatchingAnyUser(logId, userId) ==
  {l \in fluidLogsTable : l.id = logId}

\* where(and(eq(fluidLogsTable.id, logId), eq(fluidLogsTable.user_id, userId)))
FluidLogsMatching(logId, userId) ==
  {l \in fluidLogsTable : l.id = logId /\ l.user_id = userId}

\* select from fluid_logs where id and user_id
DeleteFluidLogSelect(p) ==
  /\ pc[p] = "dw_select"
  /\ LET found == FluidLogsMatching(call[p].input.log_id, call[p].input.user_id)
     IN IF found = {}
          THEN Finish(p, Returned(FALSE))
          ELSE \E l \in found :        \* fluidLogs[0]
                 Goto(p, "dw_delete",
                      [volumeToRemove |-> l.volume,
                       logDate |-> SummaryDate(l.consumed_at)])
  /\ UNCHANGED <<tables, serials, now, call>>

\* delete from fluid_logs where id and user_id; rowCount 0 returns false
DeleteFluidLogDelete(p) ==
  /\ pc[p] = "dw_delete"
  /\ LET gone == FluidLogsMatching(call[p].input.log_id, call[p].input.user_id)
     IN /\ fluidLogsTable' = fluidLogsTable \ gone
        /\ IF gone = {}
             THEN Finish(p, Returned(FALSE))
             ELSE Goto(p, "dw_summary", loc[p])
  /\ UNCHANGED <<foodLogsTable, dailySummariesTable, dailyGoalsTable,
                 serials, now, call>>

\* the same statement treating a missing summary as a failure
DeleteFluidLogRequireSummary(p) ==
  /\ pc[p] = "dw_summary"
  /\ LET found == SummariesFor(call[p].input.user_id, loc[p].logDate)
     IN IF found = {}
          THEN Finish(p, Thrown("SummaryNotFound"))
          ELSE \E s \in found :
                 Goto(p, "dw_update",
                      [volumeToRemove |-> loc[p].volumeToRemove,
                       logDate |-> loc[p].logDate,
                       currentTotalFluid |-> s.total_fluid])
  /\ UNCHANGED <<tables, serials, now, call>>

\* select from daily_summaries where user_id and summary_date
DeleteFluidLogSelectSummary(p) ==
  /\ pc[p] = "dw_summary"
  /\ LET found == SummariesFor(call[p].input.user_id, loc[p].logDate)
     IN IF found = {}
          THEN Finish(p, Returned(TRUE))
          ELSE \E s \in found :        \* existingSummaries[0]
                 Goto(p, "dw_update",
                      [volumeToRemove |-> loc[p].volumeToRemove,
                       logDate |-> loc[p].logDate,
                       currentTotalFluid |-> s.total_fluid])
  /\ UNCHANGED <<tables, serials, now, call>>

Max(a, b) == IF a >= b THEN a ELSE b

\* the same difference without the lower limit
NewTotalFluidUnclamped(currentTotalFluid, volumeToRemove) ==
  currentTotalFluid - volumeToRemove

\* Math.max(0, currentTotalFluid - volumeToRemove)
NewTotalFluid(currentTotalFluid, volumeToRemove) ==
  Max(0, currentTotalFluid - volumeToRemove)

\* the same statement removing a row that it would leave with every total at 0
DeleteFluidLogUpdateOrRemoveSummary(p) ==
  /\ pc[p] = "dw_update"
  /\ LET hit == SummariesFor(call[p].input.user_id, loc[p].logDate)
         new == NewTotalFluid(loc[p].currentTotalFluid, loc[p].volumeToRemove)
         emptied == {s \in hit : new = 0 /\ \A n \in Nutrients : s[n] = 0}
     IN dailySummariesTable' =
          { IF s \in hit THEN [s EXCEPT !.total_fluid = new] ELSE s :
              s \in dailySummariesTable \ emptied }
  /\ Finish(p, Returned(TRUE))
  /\ UNCHANGED <<foodLogsTable, fluidLogsTable, dailyGoalsTable,
                 serials, now, call>>

\* update daily_summaries set total_fluid = newTotalFluid where user_id and date
DeleteFluidLogUpdateSummary(p) ==
  /\ pc[p] = "dw_update"
  /\ LET hit == SummariesFor(call[p].input.user_id, loc[p].logDate)
         new == NewTotalFluid(loc[p].currentTotalFluid, loc[p].volumeToRemove)
     IN dailySummariesTable' =
          { IF s \in hit THEN [s EXCEPT !.total_fluid = new] ELSE s :
              s \in dailySummariesTable }
  /\ Finish(p, Returned(TRUE))
  /\ UNCHANGED <<foodLogsTable, fluidLogsTable, dailyGoalsTable,
                 serials, now, call>>

\* ------------------------------------------------------- createDailyGoals
CreateDailyGoalsCall(p, input) ==
  /\ nextGoalsId + Cardinality({q \in Procs : pc[q] \in {"cg_user", "cg_insert"}})
       <= MaxGoals
  /\ Begin(p, "createDailyGoals", input, "cg_user")

\* select from users where id = input.user_id
CreateDailyGoalsSelectUser(p) ==
  /\ pc[p] = "cg_user"
  /\ IF call[p].input.user_id \in usersTable
       THEN Goto(p, "cg_insert", NoLocals)
       ELSE Finish(p, Thrown("UserNotFound"))
  /\ UNCHANGED <<tables, serials, now, call>>

\* insert into daily_goals ... returning (created_at, updated_at: defaultNow())
CreateDailyGoalsInsert(p) ==
  /\ pc[p] = "cg_insert"
  /\ LET row == [id |-> nextGoalsId,
                 user_id |-> call[p].input.user_id,
                 daily_calories |-> call[p].input.daily_calories,
                 daily_protein |-> call[p].input.daily_protein,
                 daily_carbs |-> call[p].input.daily_carbs,
                 daily_fats |-> call[p].input.daily_fats,
                 daily_fluid |-> call[p].input.daily_fluid,
                 created_at |-> now,
                 updated_at |-> now]
     IN /\ dailyGoalsTable' = dailyGoalsTable \cup {row}
        /\ Finish(p, Returned(row))
  /\ nextGoalsId' = nextGoalsId + 1
  /\ UNCHANGED <<foodLogsTable, fluidLogsTable, dailySummariesTable,
                 nextFoodLogId, nextFluidLogId, nextSummaryId, now, call>>

\* ------------------------------------------------------- updateDailyGoals
UpdateDailyGoalsCall(p, input) == Begin(p, "updateDailyGoals", input, "ug_update")

\* if (input.x) updateData['x'] = input.x: a test that also skips 0
ProvidedTruthy(given, old) == IF given \in {-1, 0} THEN old ELSE given

\* if (input.x !== undefined) updateData['x'] = input.x   (-1: undefined)
Provided(given, old) == IF given = -1 THEN old ELSE given

\* the row as set(updateData) leaves it; updated_at is always written
GoalsUpdated(g, input, at) ==
  [g EXCEPT !.daily_calories = Provided(input.daily_calories, @),
            !.daily_protein = Provided(input.daily_protein, @),
            !.daily_carbs = Provided(input.daily_carbs, @),
            !.daily_fats = Provided(input.daily_fats, @),
            !.daily_fluid = Provided(input.daily_fluid, @),
            !.updated_at = at]

\* update daily_goals set ... where id = input.id returning
UpdateDailyGoals(p) ==
  /\ pc[p] = "ug_update"
  /\ LET hit == {g \in dailyGoalsTable : g.id = call[p].input.id}
     IN IF hit = {}
          THEN (/\ UNCHANGED dailyGoalsTable
                /\ Finish(p, Thrown("DailyGoalsNotFound")))
          ELSE (/\ dailyGoalsTable' =
                     { IF g \in hit THEN GoalsUpdated(g, call[p].input, now) ELSE g :
                         g \in dailyGoalsTable }
                /\ \E g \in hit :
                     Finish(p, Returned(GoalsUpdated(g, call[p].input, now))))
  /\ UNCHANGED <<foodLogsTable, fluidLogsTable, dailySummariesTable,
                 serials, now, call>>

\* ------------------------------------------------------ getUserDailyGoals
GetUserDailyGoalsCall(p, input) == Begin(p, "getUserDailyGoals", input, "gg_select")

\* where user_id order by created_at desc limit 1
NewestGoals(userId) ==
  {g \in dailyGoalsTable :
     /\ g.user_id = userId
     /\ \A h \in dailyGoalsTable : h.user_id = userId => h.created_at <= g.created_at}

\* select from daily_goals where user_id order by created_at desc limit 1;
\* null (no row) or result[0]
GetUserDailyGoals(p) ==
  /\ pc[p] = "gg_select"
  /\ LET found == NewestGoals(call[p].input.user_id)
     IN IF found = {}
          THEN Finish(p, Returned({}))
          ELSE \E g \in found : Finish(p, Returned({g}))
  /\ UNCHANGED <<tables, serials, now, call>>

\* --------------------------------------------------- getUserDailyProgress
GetUserDailyProgressCall(p, input) ==
  Begin(p, "getUserDailyProgress", input, "gp_goals")

\* the same lookup without the user condition
LatestGoalsOfAnyone(userId) ==
  {g \in dailyGoalsTable :
     \A h \in dailyGoalsTable : h.updated_at <= g.updated_at}

\* the same lookup ordered by created_at
LatestGoalsByCreation(userId) ==
  {g \in dailyGoalsTable :
     /\ g.user_id = userId
     /\ \A h \in dailyGoalsTable : h.user_id = userId => h.created_at <= g.created_at}

\* where user_id order by updated_at desc limit 1
LatestGoals(userId) ==
  {g \in dailyGoalsTable :
     /\ g.user_id = userId
     /\ \A h \in dailyGoalsTable : h.user_id = userId => h.updated_at <= g.updated_at}

GetUserDailyProgressSelectGoals(p) ==
  /\ pc[p] = "gp_goals"
  /\ LET found == LatestGoals(call[p].input.user_id)
     IN IF found = {}
          THEN Goto(p, "gp_summary", [goals |-> {}])
          ELSE \E g \in found : Goto(p, "gp_summary", [goals |-> {g}])
  /\ UNCHANGED <<tables, serials, now, call>>

\* select from daily_summaries where user_id and summary_date = date
GetUserDailyProgressSelectSummary(p) ==
  /\ pc[p] = "gp_summary"
  /\ LET found == SummariesFor(call[p].input.user_id, call[p].input.date)
     IN IF found = {}
          THEN Goto(p, "gp_food", [goals |-> loc[p].goals, summary |-> {}])
          ELSE \E s \in found :        \* summaryResult[0]
                 Goto(p, "gp_food", [goals |-> loc[p].goals, summary |-> {s}])
  /\ UNCHANGED <<tables, serials, now, call>>

\* new Date(`${date}T00:00:00.000Z`) and new Date(`${date}T23:59:59.999Z`)
StartOfDay(date) == date * MsPerDay
EndOfDay(date) == date * MsPerDay + EndOfDayMs

\* gte(consumed_at, startOfDay), lt(consumed_at, endOfDay)
InProgressRange(consumedAt, date) ==
  StartOfDay(date) <= consumedAt /\ consumedAt < EndOfDay(date)

\* select food_logs inner join food_items where user_id and the day's range
GetUserDailyProgressSelectFoodLogs(p) ==
  /\ pc[p] = "gp_food"
  /\ Goto(p, "gp_fluid",
          [goals |-> loc[p].goals, summary |-> loc[p].summary,
           food_logs |-> {l \in foodLogsTable :
                            /\ FoodItemsById(l.food_item_id) # {}
                            /\ l.user_id = call[p].input.user_id
                            /\ InProgressRange(l.consumed_at, call[p].input.date)}])
  /\ UNCHANGED <<tables, serials, now, call>>

\* truncation in place of rounding
MathTrunc(n, d) == n \div d

\* Math.round(x) of x = n / d, d > 0: the integer floor(x + 1/2)
MathRound(n, d) == (2 * n + d) \div (2 * d)

\* Math.round((total / goal) * 100): a double, which need not be finite
Percentage(total, goal) ==
  IF goal # 0 THEN [kind |-> "finite", n |-> MathRound(total * Hundred, goal)]
  ELSE IF total > 0 THEN [kind |-> "Infinity", n |-> 0]
  ELSE IF total < 0 THEN [kind |-> "-Infinity", n |-> 0]
  ELSE [kind |-> "NaN", n |-> 0]

Zero == [kind |-> "finite", n |-> 0]

\* goals && summary ? Math.round(...) : 0, for each of the five
ProgressPercentages(goals, summary) ==
  IF goals # {} /\ summary # {}
    THEN LET g == CHOOSE x \in goals : TRUE
             s == CHOOSE x \in summary : TRUE
         IN [calories |-> Percentage(s.total_calories, g.daily_calories),
             protein |-> Percentage(s.total_protein, g.daily_protein),
             carbs |-> Percentage(s.total_carbs, g.daily_carbs),
             fats |-> Percentage(s.total_fats, g.daily_fats),
             fluid |-> Percentage(s.total_fluid, g.daily_fluid)]
    ELSE [calories |-> Zero, protein |-> Zero, carbs |-> Zero, fats |-> Zero,
          fluid |-> Zero]

\* select fluid_logs where user_id and the day's range; compose the answer
GetUserDailyProgressSelectFluidLogs(p) ==
  /\ pc[p] = "gp_fluid"
  /\ Finish(p, Returned(
       [date |-> call[p].input.date,
        goals |-> loc[p].goals,
        summary |-> loc[p].summary,
        food_logs |-> loc[p].food_logs,
        fluid_logs |-> {l \in fluidLogsTable :
                          /\ l.user_id = call[p].input.user_id
                          /\ InProgressRange(l.consumed_at, call[p].input.date)},
        progress_percentages |-> ProgressPercentages(loc[p].goals, loc[p].summary)]))
  /\ UNCHANGED <<tables, serials, now, call>>

\* ------------------------------------------- getUserFoodLogs, getUserFluidLogs
\* orderBy(desc(consumed_at)): every order of the rows with consumed_at not
\* increasing (rows of equal consumed_at come in either order)
OrderedDesc(rows) ==
  {sq \in [1..Cardinality(rows) -> rows] :
     /\ \A i, j \in 1..Cardinality(rows) : i # j => sq[i] # sq[j]
     /\ \A i, j \in 1..Cardinality(rows) :
          i < j => sq[i].consumed_at >= sq[j].consumed_at}

\* endDate.setDate(endDate.getDate() + 1): one calendar day later in the time
\* zone of the process, which is 24 hours, or 23 or 25 hours across a change
\* of that zone's daylight saving time
LocalDayLengths == {MsPerDay - MsPerHour, MsPerDay, MsPerDay + MsPerHour}

GetUserFoodLogsCall(p, input) == Begin(p, "getUserFoodLogs", input, "fl_select")

\* select from food_logs where user_id [and consumed_at >= startDate and
\* consumed_at < endDate] order by consumed_at desc   (date -1: no date given)
GetUserFoodLogs(p) ==
  /\ pc[p] = "fl_select"
  /\ IF call[p].input.date = -1
       THEN \E sq \in OrderedDesc({l \in foodLogsTable :
                                     l.user_id = call[p].input.user_id}) :
              Finish(p, Returned(sq))
       ELSE \E len \in LocalDayLengths :
              LET startDate == StartOfDay(call[p].input.date)
                  endDate == startDate + len
              IN \E sq \in OrderedDesc({l \in foodLogsTable :
                                          /\ l.user_id = call[p].input.user_id
                                          /\ l.consumed_at >= startDate
                                          /\ l.consumed_at < endDate}) :
                   Finish(p, Returned(sq))
  /\ UNCHANGED <<tables, serials, now, call>>

GetUserFluidLogsCall(p, input) == Begin(p, "getUserFluidLogs", input, "wl_select")

\* endDate: setUTCDate(getUTCDate() + 1), setUTCHours(0, 0, 0, 0)
GetUserFluidLogs(p) ==
  /\ pc[p] = "wl_select"
  /\ IF call[p].input.date = -1
       THEN \E sq \in OrderedDesc({l \in fluidLogsTable :
                                     l.user_id = call[p].input.user_id}) :
              Finish(p, Returned(sq))
       ELSE LET startDate == StartOfDay(call[p].input.date)
                endDate == StartOfDay(call[p].input.date + 1)
            IN \E sq \in OrderedDesc({l \in fluidLogsTable :
                                        /\ l.user_id = call[p].input.user_id
                                        /\ l.consumed_at >= startDate
                                        /\ l.consumed_at < endDate}) :
                 Finish(p, Returned(sq))
  /\ UNCHANGED <<tables, serials, now, call>>

\* -------------------------------------------------------- searchFoodItems
SearchFoodItemsCall(p, input) == Begin(p, "searchFoodItems", input, "sf_select")

\* the lower-case form of a character, as ILIKE compares
Lower(c) ==
  CASE c = "A" -> "a" [] c = "P" -> "p" [] c = "L" -> "l" [] c = "O" -> "o"
    [] OTHER -> c

\* string LIKE pattern without regard to case: % stands for any run of
\* characters, _ for any one character, any other character for itself
RECURSIVE ILike(_, _)
ILike(string, pattern) ==
  IF pattern = <<>> THEN string = <<>>
  ELSE IF Head(pattern) = "%"
    THEN \/ ILike(string, Tail(pattern))
         \/ string # <<>> /\ ILike(Tail(string), pattern)
    ELSE /\ string # <<>>
         /\ Head(pattern) = "_" \/ Lower(Head(pattern)) = Lower(Head(string))
         /\ ILike(Tail(string), Tail(pattern))

\* `%${input.query}%`
SearchPattern(query) == <<"%">> \o query \o <<"%">>

\* select from food_items where name ilike pattern
SearchFoodItems(p) ==
  /\ pc[p] = "sf_select"
  /\ Finish(p, Returned({f \in foodItemsTable :
                            ILike(f.name, SearchPattern(call[p].input.query))}))
  /\ UNCHANGED <<tables, serials, now, call>>

\* ------------------------------------------------- the handlers' statements
ListingSteps(p) ==
  \/ GetUserFoodLogs(p)
  \/ GetUserFluidLogs(p)

LogFoodSteps(p) ==
  \/ LogFoodSelectUser(p)
  \/ LogFoodSelectItem(p)
  \/ LogFoodInsert(p)
  \/ LogFoodSelectSummary(p)
  \/ LogFoodWriteSummary(p)

LogFluidSteps(p) ==
  \/ LogFluidSelectUser(p)
  \/ LogFluidInsert(p)
  \/ LogFluidSelectSummary(p)
  \/ LogFluidWriteSummary(p)

DeleteSteps(p) ==
  \/ DeleteFoodLogSelect(p)
  \/ DeleteFoodLogDelete(p)
  \/ DeleteFoodLogUpdateSummary(p)
  \/ DeleteFluidLogSelect(p)
  \/ DeleteFluidLogDelete(p)
  \/ DeleteFluidLogSelectSummary(p)
  \/ DeleteFluidLogUpdateSummary(p)

GoalsSteps(p) ==
  \/ CreateDailyGoalsSelectUser(p)
  \/ CreateDailyGoalsInsert(p)
  \/ UpdateDailyGoals(p)
  \/ GetUserDailyGoals(p)

ProgressSteps(p) ==
  \/ GetUserDailyProgressSelectGoals(p)
  \/ GetUserDailyProgressSelectSummary(p)
  \/ GetUserDailyProgressSelectFoodLogs(p)
  \/ GetUserDailyProgressSelectFluidLogs(p)

\* ------------------------------------------------------- inputs of the calls
Omitted == {-1}
Noon == {43200000}

\* sequential calls: two users, two dates, a missing user and a missing food item
SeqLogFoodInputs ==
  [user_id : {1}, food_item_id : {1}, portion_size : Portions,
   consumed_at : Noon]
  \cup [user_id : {1}, food_item_id : {1}, portion_size : {15000},
        consumed_at : {MsPerDay}]
  \cup [user_id : {1}, food_item_id : {1}, portion_size : {15000},
        consumed_at : Omitted]
  \cup [user_id : {2}, food_item_id : {1}, portion_size : {15000},
        consumed_at : Noon]
  \cup [user_id : {3}, food_item_id : {1}, portion_size : {15000},
        consumed_at : Noon]
  \cup [user_id : {1}, food_item_id : {2}, portion_size : {15000},
        consumed_at : Noon]

SeqLogFluidInputs ==
  [user_id : {1}, volume : Volumes, consumed_at : Noon]
  \cup [user_id : {1}, volume : {25000}, consumed_at : Omitted]
  \cup [user_id : {1}, volume : {25000}, consumed_at : {MsPerDay}]
  \cup [user_id : {2}, volume : {25000}, consumed_at : Noon]
  \cup [user_id : {3}, volume : {25000}, consumed_at : Noon]

DeleteInputs == [log_id : 1..MaxLogs, user_id : usersTable]

ProgressInputs == [user_id : usersTable, date : Dates]

\* calls that run one after another
SeqCalls(p) ==
  \/ \E input \in SeqLogFoodInputs : LogFoodCall(p, input)
  \/ \E input \in SeqLogFluidInputs : LogFluidCall(p, input)
  \/ \E input \in DeleteInputs : DeleteFoodLogCall(p, input)
  \/ \E input \in DeleteInputs : DeleteFluidLogCall(p, input)
  \/ \E input \in ProgressInputs : GetUserDailyProgressCall(p, input)

NextSeq ==
  \/ SeqCalls(1)
  \/ LogFoodSteps(1) \/ LogFluidSteps(1) \/ DeleteSteps(1) \/ ProgressSteps(1)

SpecSeq == InitObserved /\ [][NextSeq]_vars

\* calls in flight together: one user, one date
ConcLogFoodInputs ==
  [user_id : {1}, food_item_id : {1}, portion_size : {15000}, consumed_at : Noon]
ConcLogFluidInputs ==
  [user_id : {1}, volume : {25000}, consumed_at : Noon]
ConcDeleteInputs == [log_id : 1..MaxLogs, user_id : {1}]

ConcCalls(p) ==
  \/ \E input \in ConcLogFoodInputs : LogFoodCall(p, input)
  \/ \E input \in ConcLogFluidInputs : LogFluidCall(p, input)
  \/ \E input \in ConcDeleteInputs : DeleteFoodLogCall(p, input)
  \/ \E input \in ConcDeleteInputs : DeleteFluidLogCall(p, input)

Next ==
  \E p \in Procs :
    ConcCalls(p) \/ LogFoodSteps(p) \/ LogFluidSteps(p) \/ DeleteSteps(p)

Spec == Init /\ [][Next]_vars

\* goals and progress, one call after another
GoalsValues ==
  { [daily_calories |-> 200000, daily_protein |-> 15000, daily_carbs |-> 25000,
     daily_fats |-> 6700, daily_fluid |-> 200000],
    [daily_calories |-> 10000, daily_protein |-> 0, daily_carbs |-> 0,
     daily_fats |-> 0, daily_fluid |-> 0] }

WithUser(g, u) ==
  [user_id |-> u, daily_calories |-> g.daily_calories,
   daily_protein |-> g.daily_protein, daily_carbs |-> g.daily_carbs,
   daily_fats |-> g.daily_fats, daily_fluid |-> g.daily_fluid]

CreateDailyGoalsInputs ==
  {WithUser(g, 1) : g \in GoalsValues}
  \cup {WithUser(g, u) : g \in {x \in GoalsValues : x.daily_protein # 0},
                         u \in {2, 3}}

UpdateDailyGoalsInputs ==
  [id : 1..(MaxGoals + 1), daily_calories : {180000}, daily_protein : {-1},
   daily_carbs : {-1}, daily_fats : {-1}, daily_fluid : {-1}]
  \cup [id : {1}, daily_calories : {-1}, daily_protein : {-1, 0},
        daily_carbs : {-1}, daily_fats : {-1}, daily_fluid : {-1}]

GoalsLookupInputs == [user_id : usersTable]

ProgressLogFoodInputs ==
  [user_id : {1, 3}, food_item_id : {1}, portion_size : {15000}, consumed_at : Noon]
  \cup [user_id : {1}, food_item_id : {2}, portion_size : {15000},
        consumed_at : Noon]
ProgressLogFluidInputs ==
  [user_id : {1, 3}, volume : {25000}, consumed_at : Noon]

ProgressCalls(p) ==
  \/ /\ LogsInserted < MaxProgressLogs
     /\ \E input \in ProgressLogFoodInputs : LogFoodCall(p, input)
  \/ /\ LogsInserted < MaxProgressLogs
     /\ \E input \in ProgressLogFluidInputs : LogFluidCall(p, input)
  \/ \E input \in CreateDailyGoalsInputs : CreateDailyGoalsCall(p, input)
  \/ \E input \in UpdateDailyGoalsInputs : UpdateDailyGoalsCall(p, input)
  \/ \E input \in ProgressInputs : GetUserDailyProgressCall(p, input)
  \/ \E input \in GoalsLookupInputs : GetUserDailyGoalsCall(p, input)

NextProgress ==
  \/ Tick
  \/ ProgressCalls(1)
  \/ LogFoodSteps(1) \/ LogFluidSteps(1) \/ GoalsSteps(1) \/ ProgressSteps(1)

SpecProgress == Init /\ [][NextProgress]_vars

\* logs at the edges of a day, the progress of a day and the listings
DayEdges == {0, EndOfDayMs, MsPerDay}

DaysLogFoodInputs ==
  [user_id : {1}, food_item_id : {1}, portion_size : {15000},
   consumed_at : DayEdges]
DaysLogFluidInputs ==
  [user_id : {1}, volume : {25000}, consumed_at : DayEdges \ {0}]
  \cup [user_id : {2}, volume : {25000}, consumed_at : Noon]

ListingInputs == [user_id : usersTable, date : Omitted \cup Dates]

DaysCalls(p) ==
  \/ \E input \in DaysLogFoodInputs : LogFoodCall(p, input)
  \/ \E input \in DaysLogFluidInputs : LogFluidCall(p, input)
  \/ \E input \in ProgressInputs : GetUserDailyProgressCall(p, input)
  \/ \E input \in ListingInputs : GetUserFoodLogsCall(p, input)
  \/ \E input \in ListingInputs : GetUserFluidLogsCall(p, input)

NextDays ==
  \/ DaysCalls(1)
  \/ LogFoodSteps(1) \/ LogFluidSteps(1) \/ ProgressSteps(1) \/ ListingSteps(1)

SpecDays == Init /\ [][NextDays]_vars

\* one call after another, with a portion of 120 kg of the oil among the inputs
BulkLogFoodInputs ==
  [user_id : {1}, food_item_id : {1}, portion_size : {15000}, consumed_at : Noon]
  \cup [user_id : {1}, food_item_id : {3}, portion_size : {12000000},
        consumed_at : Noon \cup {MsPerDay}]
BulkLogFluidInputs == [user_id : {1}, volume : {25000}, consumed_at : Noon]

BulkCalls(p) ==
  \/ \E input \in BulkLogFoodInputs : LogFoodCall(p, input)
  \/ \E input \in BulkLogFluidInputs : LogFluidCall(p, input)
  \/ \E input \in ConcDeleteInputs : DeleteFoodLogCall(p, input)
  \/ \E input \in ConcDeleteInputs : DeleteFluidLogCall(p, input)

NextBulk ==
  \/ BulkCalls(1)
  \/ LogFoodSteps(1) \/ LogFluidSteps(1) \/ DeleteSteps(1)

SpecBulk == Init /\ [][NextBulk]_vars

\* two calls, one for each process, against a store that earlier calls, run one
\* after another by user 1 at noon of the first day, have left
AppleLog(id) ==
  [id |-> id, user_id |-> 1, food_item_id |-> 1, portion_size |-> 15000,
   consumed_at |-> 43200000]
WaterLog(id) == [id |-> id, user_id |-> 1, volume |-> 25000, consumed_at |-> 43200000]

\* the summary row after k logFood calls of 150 g of apple and m logFluid calls
\* of 250 ml
SummaryAfter(k, m) ==
  [id |-> 1, user_id |-> 1, summary_date |-> 0,
   total_calories |-> k * 7800, total_protein |-> k * 45,
   total_carbs |-> k * 2100, total_fats |-> k * 30, total_fluid |-> m * 25000]

RaceStores ==
  { [food |-> {}, fluid |-> {WaterLog(1), WaterLog(2), WaterLog(3)},
     summary |-> SummaryAfter(0, 3)],
    [food |-> {AppleLog(1), AppleLog(2), AppleLog(3)}, fluid |-> {},
     summary |-> SummaryAfter(3, 0)],
    [food |-> {AppleLog(1)}, fluid |-> {WaterLog(1)},
     summary |-> SummaryAfter(1, 1)] }

InitRace ==
  /\ \E store \in RaceStores :
       /\ foodLogsTable = store.food
       /\ fluidLogsTable = store.fluid
       /\ dailySummariesTable = {store.summary}
       /\ nextFoodLogId = Cardinality(store.food) + 1
       /\ nextFluidLogId = Cardinality(store.fluid) + 1
  /\ dailyGoalsTable = {}
  /\ nextSummaryId = 2
  /\ nextGoalsId = 1
  /\ now = 43200000
  /\ pc = [p \in Procs |-> "idle"]
  /\ call = [p \in Procs |-> [op |-> "none"]]
  /\ loc = [p \in Procs |-> NoLocals]
  /\ result = [p \in Procs |-> NoResult]
  /\ lastLog = Unobserved

NextRace ==
  \E p \in Procs :
    \/ pc[p] = "idle" /\ ConcCalls(p)
    \/ LogFoodSteps(p) \/ LogFluidSteps(p) \/ DeleteSteps(p)

SpecRace == InitRace /\ [][NextRace]_vars

\* searches of the catalogue; a query is a non-empty string
QueryChars == {"a", "P", "l", "_", "%"}
Queries == UNION {[1..n -> QueryChars] : n \in 1..MaxQueryLen}
SearchInputs == [query : Queries]

NextSearch ==
  \/ \E input \in SearchInputs : SearchFoodItemsCall(1, input)
  \/ SearchFoodItems(1)

SpecSearch == Init /\ [][NextSearch]_vars

\* ------------------------------------------------------------- properties
Quiescent == \A p \in Procs : pc[p] \in {"idle", "done"}

UtcDay(ms) == ms \div 86400000

FoodLogsOn(userId, day) ==
  {l \in foodLogsTable : l.user_id = userId /\ UtcDay(l.consumed_at) = day}
FluidLogsOn(userId, day) ==
  {l \in fluidLogsTable : l.user_id = userId /\ UtcDay(l.consumed_at) = day}

\* rate * portion_size of one log for one nutrient, in millionths
Contributed(l, n) ==
  LET item == CHOOSE f \in foodItemsTable : f.id = l.food_item_id
  IN l.portion_size *
       (CASE n = "total_calories" -> item.calories_per_100g
          [] n = "total_protein" -> item.protein_per_100g
          [] n = "total_carbs" -> item.carbs_per_100g
          [] n = "total_fats" -> item.fats_per_100g)

RECURSIVE FoodSum(_, _)
FoodSum(logs, n) ==
  IF logs = {} THEN 0
  ELSE LET l == CHOOSE x \in logs : TRUE
       IN Contributed(l, n) + FoodSum(logs \ {l}, n)

RECURSIVE FluidSum(_)
FluidSum(logs) ==
  IF logs = {} THEN 0
  ELSE LET l == CHOOSE x \in logs : TRUE
       IN l.volume + FluidSum(logs \ {l})

\* millionths as a two-decimal value, the nearest one, halves away from zero
TwoDecimals(micro) ==
  IF micro >= 0 THEN (micro + 5000) \div 10000 ELSE -((5000 - micro) \div 10000)

\* the row holds, to its two decimals, the sums over the logs of its user and date
HoldsSums(s) ==
  /\ \A n \in Nutrients :
       s[n] = TwoDecimals(FoodSum(FoodLogsOn(s.user_id, s.summary_date), n))
  /\ s.total_fluid = FluidSum(FluidLogsOn(s.user_id, s.summary_date))

\* C1 (as the specification states it): whenever no call is running, each of
\* the five totals of every daily summary row equals the sum of the
\* contributions of the food and fluid logs that exist for its user and date.
\* The comparison is made at the two decimals the column keeps.
Reconciliation == Quiescent => \A s \in dailySummariesTable : HoldsSums(s)

NoLogDeleted ==
  /\ Cardinality(foodLogsTable) = nextFoodLogId - 1
  /\ Cardinality(fluidLogsTable) = nextFluidLogId - 1

\* every sum of a user and date fits the column, so no log call so far overflowed
SumsFit ==
  \A u \in usersTable, d \in Dates :
    /\ FluidSum(FluidLogsOn(u, d)) <= 99999999
    /\ \A n \in Nutrients : TwoDecimals(FoodSum(FoodLogsOn(u, d), n)) <= 99999999

\* C2 (as the specification states it): after log calls only, run one after
\* another, every user and date with a log has exactly one summary row, and that
\* row's totals are the sums of the logged contributions (at two decimals).
Accumulation ==
  (Quiescent /\ NoLogDeleted /\ SumsFit) =>
    \A u \in usersTable, d \in Dates :
      (FoodLogsOn(u, d) # {} \/ FluidLogsOn(u, d) # {}) =>
        /\ Cardinality({s \in dailySummariesTable :
                          s.user_id = u /\ s.summary_date = d}) = 1
        /\ \A s \in dailySummariesTable :
             (s.user_id = u /\ s.summary_date = d) => HoldsSums(s)

\* C3 (as the specification states it): in every state, calls interleaved or
\* not, all five totals of every daily summary row are at least 0.
NonNegativity ==
  \A s \in dailySummariesTable :
    /\ \A n \in Nutrients : s[n] >= 0
    /\ s.total_fluid >= 0

NoOwnedFoodLog(p) ==
  ~\E l \in foodLogsTable :
     l.id = call[p].input.log_id /\ l.user_id = call[p].input.user_id
NoOwnedFluidLog(p) ==
  ~\E l \in fluidLogsTable :
     l.id = call[p].input.log_id /\ l.user_id = call[p].input.user_id

ReturnsFalseTouchingNothing(p) ==
  /\ pc'[p] = "done"
  /\ result'[p].kind = "value"
  /\ result'[p].value = FALSE
  /\ foodLogsTable' = foodLogsTable
  /\ fluidLogsTable' = fluidLogsTable
  /\ dailySummariesTable' = dailySummariesTable

\* C4: a deleteFoodLog or deleteFluidLog call whose log id names no log of the
\* calling user (no such log, or a log of another user) returns false in its
\* first statement, deletes no log row and changes no daily summary row.
IdempotentAbsence ==
  [][\A p \in Procs :
       /\ (pc[p] = "df_select" /\ pc'[p] # pc[p] /\ NoOwnedFoodLog(p))
            => ReturnsFalseTouchingNothing(p)
       /\ (pc[p] = "dw_select" /\ pc'[p] # pc[p] /\ NoOwnedFluidLog(p))
            => ReturnsFalseTouchingNothing(p)]_vars

\* a deleteFoodLog call for another user's log has returned false
ForeignDeleteRefused ==
  \E p \in Procs :
    /\ pc[p] = "done"
    /\ call[p].op = "deleteFoodLog"
    /\ result[p].kind = "value"
    /\ result[p].value = FALSE
    /\ \E l \in foodLogsTable :
         l.id = call[p].input.log_id /\ l.user_id # call[p].input.user_id
    /\ dailySummariesTable # {}

Totals == Nutrients \cup {"total_fluid"}

\* C5 (as the specification states it): a successful log call followed at once
\* by the successful delete call for the log it returned leaves a summary row
\* for that user and date, every total as it was before the log call (0 if the
\* log call created the row), and no log row of that id.
CreateThenReverse ==
  lastLog.stage = "reversed" =>
    LET rows == {s \in dailySummariesTable :
                   s.user_id = lastLog.user_id
                   /\ s.summary_date = lastLog.summary_date}
    IN /\ rows # {}
       /\ \A s \in rows :
            IF lastLog.before = {}
              THEN \A t \in Totals : s[t] = 0
              ELSE \E b \in lastLog.before :
                     b.id = s.id /\ \A t \in Totals : s[t] = b[t]
       /\ lastLog.op = "logFood" =>
            ~\E l \in foodLogsTable : l.id = lastLog.log_id
       /\ lastLog.op = "logFluid" =>
            ~\E l \in fluidLogsTable : l.id = lastLog.log_id

Running(p) == pc[p] \notin {"idle", "done"}

\* the call names a user, food item or goals row that is not in the store
NamesMissingRow(p) ==
  \/ /\ call[p].op = "logFood"
     /\ \/ call[p].input.user_id \notin usersTable
        \/ ~\E f \in foodItemsTable : f.id = call[p].input.food_item_id
  \/ /\ call[p].op \in {"logFluid", "createDailyGoals"}
     /\ call[p].input.user_id \notin usersTable
  \/ /\ call[p].op = "updateDailyGoals"
     /\ ~\E g \in dailyGoalsTable : g.id = call[p].input.id

\* C6: every statement of a logFood, logFluid, createDailyGoals or
\* updateDailyGoals call that names a missing user, food item or goals row
\* leaves the four tables as they are, and the call ends with an error.
NotFoundLeavesStore ==
  [][\A p \in Procs :
       (Running(p) /\ pc'[p] # pc[p] /\ NamesMissingRow(p)) =>
         /\ foodLogsTable' = foodLogsTable
         /\ fluidLogsTable' = fluidLogsTable
         /\ dailyGoalsTable' = dailyGoalsTable
         /\ dailySummariesTable' = dailySummariesTable
         /\ pc'[p] = "done" => result'[p].kind = "error"]_vars

\* a logFood call for a missing food item has failed in a store that holds rows
MissingItemRefused ==
  \E p \in Procs :
    /\ pc[p] = "done"
    /\ call[p].op = "logFood"
    /\ call[p].input.user_id \in usersTable
    /\ ~\E f \in foodItemsTable : f.id = call[p].input.food_item_id
    /\ result[p].kind = "error"
    /\ foodLogsTable # {}
    /\ dailyGoalsTable # {}

NoSummaryOn(userId, day) ==
  ~\E s \in dailySummariesTable : s.user_id = userId /\ s.summary_date = day

ReturnsTrueCreatingNothing(p) ==
  /\ pc'[p] = "done"
  /\ result'[p].kind = "value"
  /\ result'[p].value = TRUE
  /\ dailySummariesTable' = dailySummariesTable

\* C7: when a delete call has removed its log row and comes to the summary of
\* the log's user and date and there is none, it returns true, raises no error
\* and creates no daily summary row; the log row stays removed.
ReversalWithoutSummary ==
  [][\A p \in Procs :
       /\ (/\ pc[p] = "df_update" /\ pc'[p] # pc[p]
           /\ NoSummaryOn(call[p].input.user_id, loc[p].summaryDate))
            => /\ ReturnsTrueCreatingNothing(p)
               /\ ~\E l \in foodLogsTable' : l.id = call[p].input.log_id
       /\ (/\ pc[p] = "dw_summary" /\ pc'[p] # pc[p]
           /\ NoSummaryOn(call[p].input.user_id, loc[p].logDate))
            => /\ ReturnsTrueCreatingNothing(p)
               /\ ~\E l \in fluidLogsTable' : l.id = call[p].input.log_id]_vars

\* a deleteFluidLog call has returned true while no summary row exists at all
DeletedWithoutSummary ==
  \E p \in Procs :
    /\ pc[p] = "done"
    /\ call[p].op = "deleteFluidLog"
    /\ result[p].kind = "value"
    /\ result[p].value = TRUE
    /\ dailySummariesTable = {}

\* the summary rows of every key but (userId, day)
RowsOffKey(rows, userId, day) ==
  {s \in rows : ~(s.user_id = userId /\ s.summary_date = day)}

OffKeyUnchanged(userId, day) ==
  RowsOffKey(dailySummariesTable', userId, day)
    = RowsOffKey(dailySummariesTable, userId, day)

InputDay(input) ==
  UtcDay(IF input.consumed_at = -1 THEN now ELSE input.consumed_at)

\* C8: every statement of a log or delete call of user u for a log of UTC date
\* d leaves every summary row keyed otherwise than (u, d) as it is, and
\* getUserDailyProgress(u, d') returns only logs of user u consumed on date d'
\* and only a summary keyed (u, d').
Isolation ==
  [][\A p \in Procs :
       (Running(p) /\ pc'[p] # pc[p]) =>
         /\ call[p].op \in {"logFood", "logFluid"} =>
              OffKeyUnchanged(call[p].input.user_id, InputDay(call[p].input))
         /\ pc[p] \in {"df_select", "dw_select"} =>
              dailySummariesTable' = dailySummariesTable
         /\ pc'[p] = "df_delete" =>
              \E l \in foodLogsTable :
                /\ l.id = call[p].input.log_id
                /\ loc'[p].summaryDate = UtcDay(l.consumed_at)
         /\ pc'[p] = "dw_delete" =>
              \E l \in fluidLogsTable :
                /\ l.id = call[p].input.log_id
                /\ loc'[p].logDate = UtcDay(l.consumed_at)
         /\ pc[p] \in {"df_delete", "df_update"} =>
              OffKeyUnchanged(call[p].input.user_id, loc[p].summaryDate)
         /\ pc[p] \in {"dw_delete", "dw_summary", "dw_update"} =>
              OffKeyUnchanged(call[p].input.user_id, loc[p].logDate)
         /\ (call[p].op = "getUserDailyProgress" /\ pc'[p] = "done") =>
              /\ \A l \in result'[p].value.food_logs \cup result'[p].value.fluid_logs :
                   /\ l.user_id = call[p].input.user_id
                   /\ UtcDay(l.consumed_at) = call[p].input.date
              /\ \A s \in result'[p].value.summary :
                   /\ s.user_id = call[p].input.user_id
                   /\ s.summary_date = call[p].input.date]_vars

\* a log call has ended while a summary row of another user or date holds totals
LoggedBesideOtherKeys ==
  \E p \in Procs :
    /\ pc[p] = "done"
    /\ call[p].op = "logFood"
    /\ result[p].kind = "value"
    /\ \E s \in dailySummariesTable :
         /\ s.user_id = call[p].input.user_id
         /\ s.summary_date # UtcDay(result[p].value.consumed_at)
         /\ s.total_calories > 0

Answered(p) ==
  pc[p] = "done" /\ call[p].op = "getUserDailyProgress" /\ result[p].kind = "value"

Abs(n) == IF n >= 0 THEN n ELSE -n

\* pct is an integer nearest to total / goal * 100
NearestPercent(pct, total, goal) ==
  pct.kind = "finite" /\ 2 * Abs(pct.n * goal - 100 * total) <= goal

\* C9: when getUserDailyProgress returns both a goals row and a summary row,
\* each percentage is the integer nearest to total / daily goal * 100.  A daily
\* goal of 0 makes the quotient no number; that case belongs to C30.
PercentageFormula ==
  \A p \in Procs :
    (Answered(p) /\ result[p].value.goals # {} /\ result[p].value.summary # {}) =>
      \A g \in result[p].value.goals, s \in result[p].value.summary :
        LET pct == result[p].value.progress_percentages
        IN /\ NearestPercent(pct.calories, s.total_calories, g.daily_calories)
           /\ g.daily_protein > 0 =>
                NearestPercent(pct.protein, s.total_protein, g.daily_protein)
           /\ g.daily_carbs > 0 =>
                NearestPercent(pct.carbs, s.total_carbs, g.daily_carbs)
           /\ g.daily_fats > 0 =>
                NearestPercent(pct.fats, s.total_fats, g.daily_fats)
           /\ g.daily_fluid > 0 =>
                NearestPercent(pct.fluid, s.total_fluid, g.daily_fluid)

\* an answer with goals and summary whose fluid percentage was rounded up from
\* 12.5 and whose calorie percentage was rounded up from 3.9
PercentagesRounded ==
  \E p \in Procs :
    /\ Answered(p)
    /\ result[p].value.goals # {}
    /\ result[p].value.summary # {}
    /\ result[p].value.progress_percentages.fluid = [kind |-> "finite", n |-> 13]
    /\ result[p].value.progress_percentages.calories = [kind |-> "finite", n |-> 4]

AllZero(pct) ==
  /\ pct.calories = [kind |-> "finite", n |-> 0]
  /\ pct.protein = [kind |-> "finite", n |-> 0]
  /\ pct.carbs = [kind |-> "finite", n |-> 0]
  /\ pct.fats = [kind |-> "finite", n |-> 0]
  /\ pct.fluid = [kind |-> "finite", n |-> 0]

HasGoals(userId) == \E g \in dailyGoalsTable : g.user_id = userId

\* C10: with calls run one after another, getUserDailyProgress never fails; for
\* a user with goals and a date with no summary and no logs it returns the
\* goals, no summary, no logs and five percentages of 0; for a user without
\* goals it returns no goals and five percentages of 0.
EmptyDayIsNoError ==
  \A p \in Procs :
    (pc[p] = "done" /\ call[p].op = "getUserDailyProgress") =>
      LET u == call[p].input.user_id
          d == call[p].input.date
          r == result[p].value
      IN /\ result[p].kind = "value"
         /\ (/\ HasGoals(u)
             /\ NoSummaryOn(u, d)
             /\ FoodLogsOn(u, d) = {}
             /\ FluidLogsOn(u, d) = {})
              => /\ r.goals # {}
                 /\ \A g \in r.goals : g.user_id = u
                 /\ r.summary = {}
                 /\ r.food_logs = {}
                 /\ r.fluid_logs = {}
                 /\ AllZero(r.progress_percentages)
         /\ ~HasGoals(u) =>
              /\ r.goals = {}
              /\ AllZero(r.progress_percentages)

\* both answers seen: an empty day of a user with goals while another day of
\* that user has a summary, and a day with a summary of a user without goals
EmptyDayAnswered ==
  \E p \in Procs :
    /\ Answered(p)
    /\ result[p].value.goals # {}
    /\ result[p].value.summary = {}
    /\ AllZero(result[p].value.progress_percentages)
    /\ dailySummariesTable # {}

\* the goals rows of a user that no other row of the user was updated after
MostRecentlyUpdated(userId) ==
  {g \in dailyGoalsTable :
     /\ g.user_id = userId
     /\ ~\E h \in dailyGoalsTable :
          h.user_id = userId /\ h.updated_at > g.updated_at}

\* C11: with calls run one after another, the goals getUserDailyProgress returns
\* for a user are a goals row of that user that no other row of the user was
\* updated after, and none exactly when the user has no goals row.
CurrentGoalsInProgress ==
  \A p \in Procs :
    Answered(p) =>
      /\ result[p].value.goals \subseteq MostRecentlyUpdated(call[p].input.user_id)
      /\ result[p].value.goals = {} <=> ~HasGoals(call[p].input.user_id)

\* the goals returned are an older row edited after a newer row was created
EditedRowReturned ==
  \E p \in Procs :
    /\ Answered(p)
    /\ \E g \in result[p].value.goals, h \in dailyGoalsTable :
         /\ h.user_id = g.user_id
         /\ h.id > g.id
         /\ h.created_at > g.created_at
         /\ h.updated_at < g.updated_at

\* no two goals rows of the user were created at the same instant
CreatedApart(userId) ==
  \A g, h \in dailyGoalsTable :
    (g.user_id = userId /\ h.user_id = userId /\ g.id # h.id)
      => g.created_at # h.created_at

\* C12 (as the specification states it): with calls run one after another,
\* getUserDailyGoals returns a goals row of the user that no other row of the
\* user was updated after, and null exactly when the user has no goals row.
\* Rows created at the same instant are left out of the statement.
CurrentGoalsLookup ==
  \A p \in Procs :
    (/\ pc[p] = "done" /\ call[p].op = "getUserDailyGoals"
     /\ CreatedApart(call[p].input.user_id)) =>
      /\ result[p].kind = "value"
      /\ result[p].value \subseteq MostRecentlyUpdated(call[p].input.user_id)
      /\ result[p].value = {} <=> ~HasGoals(call[p].input.user_id)

\* C13 (as the specification states it): with calls run one after another,
\* getUserDailyProgress(user, date) returns in food_logs and fluid_logs exactly
\* the user's logs consumed within the UTC day, 00:00:00.000 to 23:59:59.999
\* included, which are the logs counted in the summary keyed by that date.
SameDayRule ==
  \A p \in Procs :
    Answered(p) =>
      /\ result[p].value.food_logs
           = FoodLogsOn(call[p].input.user_id, call[p].input.date)
      /\ result[p].value.fluid_logs
           = FluidLogsOn(call[p].input.user_id, call[p].input.date)

Listed(p, op) == pc[p] = "done" /\ call[p].op = op /\ result[p].kind = "value"

Range(sq) == {sq[i] : i \in DOMAIN sq}

\* the user's rows of the date asked for (all the user's rows without a date),
\* each once, later consumed_at first
ListsExactly(sq, rows, input) ==
  /\ Range(sq) = {l \in rows :
                    /\ l.user_id = input.user_id
                    /\ input.date # -1 => UtcDay(l.consumed_at) = input.date}
  /\ \A i, j \in DOMAIN sq : i < j => sq[i].consumed_at >= sq[j].consumed_at
  /\ \A i, j \in DOMAIN sq : i # j => sq[i] # sq[j]

\* C19 (as the specification states it): with calls run one after another,
\* getUserFoodLogs and getUserFluidLogs return exactly the user's logs with
\* date 00:00:00Z <= consumed_at < next day 00:00:00Z (all the user's logs when
\* no date is given), never a log of another user, consumed_at descending.
DateFilteredListing ==
  \A p \in Procs :
    /\ Listed(p, "getUserFoodLogs") =>
         ListsExactly(result[p].value, foodLogsTable, call[p].input)
    /\ Listed(p, "getUserFluidLogs") =>
         ListsExactly(result[p].value, fluidLogsTable, call[p].input)

\* C14 (as the specification states it): with log calls of one user and date
\* running at the same time from a store without a summary row, every reachable
\* state holds at most one summary row for a user and date.
OneSummaryRowPerKey ==
  \A s, t \in dailySummariesTable :
    (s.user_id = t.user_id /\ s.summary_date = t.summary_date) => s = t

\* C15 (as the specification states it): when log calls of one user and date
\* have run, some at the same time, against the one summary row of that user
\* and date, and no log was deleted, the row's totals are the sum of the
\* contributions of all the logs written.
NoLostUpdate ==
  (Quiescent /\ NoLogDeleted /\ OneSummaryRowPerKey) =>
    \A s \in dailySummariesTable : HoldsSums(s)

\* C16 (as the specification states it): with calls run one after another,
\* once a call has returned or failed every log row is counted in a summary row
\* of its user and date and nothing else is: the fluid total of every summary
\* row is the sum of the volumes of the fluid logs of its user and date, and a
\* user and date with a food or fluid log has a summary row.
NoPartialCommit ==
  Quiescent =>
    /\ \A s \in dailySummariesTable :
         s.total_fluid = FluidSum(FluidLogsOn(s.user_id, s.summary_date))
    /\ \A u \in usersTable, d \in Dates :
         (FoodLogsOn(u, d) \cup FluidLogsOn(u, d) # {})
           => SummariesFor(u, d) # {}

\* the log id of the call names a log of another user
ForeignFoodLog(p) ==
  \E l \in foodLogsTable :
    l.id = call[p].input.log_id /\ l.user_id # call[p].input.user_id
ForeignFluidLog(p) ==
  \E l \in fluidLogsTable :
    l.id = call[p].input.log_id /\ l.user_id # call[p].input.user_id

\* everything the store holds for one user
OwnedBy(userId) ==
  [food |-> {l \in foodLogsTable : l.user_id = userId},
   fluid |-> {l \in fluidLogsTable : l.user_id = userId},
   summaries |-> {s \in dailySummariesTable : s.user_id = userId},
   goals |-> {g \in dailyGoalsTable : g.user_id = userId}]

\* the call ends in this step with the value false, and what the caller owns
\* is as it was
RefusedLeavingOwned(p) ==
  /\ pc'[p] = "done"
  /\ result'[p] = Returned(FALSE)
  /\ OwnedBy(call[p].input.user_id)' = OwnedBy(call[p].input.user_id)

\* C17: a deleteFoodLog or deleteFluidLog call for a log id under which the
\* caller owns no log has one outcome whether or not another user's log with
\* that id exists: in both stores it returns the value false, throws nothing,
\* and leaves every row owned by the caller as it was.
ForeignAsMissing ==
  [][\A p \in Procs :
       /\ (pc[p] = "df_select" /\ pc'[p] # pc[p] /\ NoOwnedFoodLog(p)) =>
            /\ ForeignFoodLog(p) => RefusedLeavingOwned(p)
            /\ ~ForeignFoodLog(p) => RefusedLeavingOwned(p)
       /\ (pc[p] = "dw_select" /\ pc'[p] # pc[p] /\ NoOwnedFluidLog(p)) =>
            /\ ForeignFluidLog(p) => RefusedLeavingOwned(p)
            /\ ~ForeignFluidLog(p) => RefusedLeavingOwned(p)]_vars

\* a deleteFluidLog call for another user's log has returned false to a caller
\* who owns a fluid log and a summary row
ForeignFluidDeleteRefused ==
  \E p \in Procs :
    /\ pc[p] = "done"
    /\ call[p].op = "deleteFluidLog"
    /\ result[p] = Returned(FALSE)
    /\ ForeignFluidLog(p)
    /\ OwnedBy(call[p].input.user_id).fluid # {}
    /\ OwnedBy(call[p].input.user_id).summaries # {}

GoalFields ==
  {"daily_calories", "daily_protein", "daily_carbs", "daily_fats", "daily_fluid"}

\* the goals row with this id, before and after the step
GoalsRow(id) == CHOOSE g \in dailyGoalsTable : g.id = id

\* C20: an updateDailyGoals call on an existing goals row sets each goal field
\* present in the input to the value given (0 included), leaves the omitted goal
\* fields, user_id and created_at as they were, sets updated_at to the current
\* time, adds and removes no row and leaves every other goals row as it was.
PartialInPlaceEdit ==
  [][\A p \in Procs :
       (/\ pc[p] = "ug_update" /\ pc'[p] # pc[p]
        /\ \E g \in dailyGoalsTable : g.id = call[p].input.id) =>
         LET input == call[p].input
             before == GoalsRow(input.id)
             after == GoalsRow(input.id)'
         IN /\ {g.id : g \in dailyGoalsTable'} = {g.id : g \in dailyGoalsTable}
            /\ Cardinality(dailyGoalsTable') = Cardinality(dailyGoalsTable)
            /\ \A g \in dailyGoalsTable : g.id # input.id => g \in dailyGoalsTable'
            /\ \A f \in GoalFields :
                 after[f] = IF input[f] = -1 THEN before[f] ELSE input[f]
            /\ after.user_id = before.user_id
            /\ after.created_at = before.created_at
            /\ after.updated_at = now]_vars

\* an update giving only daily_protein = 0 was applied to a row created earlier
\* with a protein goal above 0, beside another goals row
ZeroGoalApplied ==
  \E p \in Procs :
    /\ pc[p] = "done"
    /\ call[p].op = "updateDailyGoals"
    /\ result[p].kind = "value"
    /\ call[p].input.daily_protein = 0
    /\ Cardinality(dailyGoalsTable) = 2
    /\ \E g \in dailyGoalsTable :
         /\ g.id = call[p].input.id
         /\ g.daily_protein = 0
         /\ g.daily_calories = 200000
         /\ g.created_at < g.updated_at

\* C18 (as the specification states it): after any calls of logFood, logFluid,
\* deleteFoodLog and deleteFluidLog run one after another from the empty store,
\* a user and date without a daily summary row has no food log and no fluid log.
NoSummaryNoData ==
  Quiescent =>
    \A u \in usersTable, d \in Dates :
      SummariesFor(u, d) = {} => FoodLogsOn(u, d) \cup FluidLogsOn(u, d) = {}

\* the query occurs in the name at some position, letters compared without case
Contains(name, query) ==
  \E i \in 0..(Len(name) - Len(query)) :
    \A k \in 1..Len(query) : Lower(name[i + k]) = Lower(query[k])

\* C21 (as the specification states it): searchFoodItems returns exactly the
\* food items whose name contains the query as a substring without regard to
\* case, for every non-empty query, the queries holding % or _ included, and
\* the empty list when no name contains it.
SearchBySubstring ==
  \A p \in Procs :
    (pc[p] = "done" /\ call[p].op = "searchFoodItems") =>
      /\ result[p].kind = "value"
      /\ result[p].value =
           {f \in foodItemsTable : Contains(f.name, call[p].input.query)}

\* the summary row with this id
SummaryRow(id) == CHOOSE s \in dailySummariesTable : s.id = id

\* C22: with calls run one after another, a deleteFluidLog call that finds its
\* log takes the log's volume and date, removes the log, and, where the user
\* and date have a summary row, ends with the value true leaving that row with
\* total_fluid = max(0, previous total_fluid - volume) and its four nutrient
\* totals as they were.
FluidSubtractionClamped ==
  [][\A p \in Procs :
       /\ (pc[p] = "dw_select" /\ pc'[p] = "dw_delete") =>
            \E l \in fluidLogsTable :
              /\ l.id = call[p].input.log_id
              /\ l.user_id = call[p].input.user_id
              /\ loc'[p].volumeToRemove = l.volume
              /\ loc'[p].logDate = UtcDay(l.consumed_at)
       /\ (pc[p] = "dw_update" /\ pc'[p] # pc[p]) =>
            /\ result'[p] = Returned(TRUE)
            /\ {s.id : s \in dailySummariesTable'} = {s.id : s \in dailySummariesTable}
            /\ \A s \in SummariesFor(call[p].input.user_id, loc[p].logDate) :
                 LET after == SummaryRow(s.id)'
                     less == s.total_fluid - loc[p].volumeToRemove
                 IN /\ after.total_fluid = IF less > 0 THEN less ELSE 0
                    /\ \A n \in Nutrients : after[n] = s[n]]_vars

\* a deleteFluidLog call has returned true and left total_fluid at 0 where the
\* total before it was smaller than the volume of the log removed: three fluid
\* logs were written, the one that remains is of 250 ml and is counted
FluidTotalHeldAtZero ==
  \E p \in Procs :
    /\ pc[p] = "done"
    /\ call[p].op = "deleteFluidLog"
    /\ result[p] = Returned(TRUE)
    /\ nextFluidLogId = 4
    /\ \E s \in dailySummariesTable :
         /\ s.user_id = call[p].input.user_id
         /\ s.total_fluid = 0
         /\ FluidLogsOn(s.user_id, s.summary_date) # {}
         /\ \A l \in fluidLogsTable : l.volume = 25000

\* C23 (as the specification states it): a deleteFoodLog call that finds its
\* log takes the log's food item, portion and date, and, when it ends with the
\* value true, each summary row of the user and date has each of its four
\* nutrient totals at max(0, previous total - rate * portion / 100), at the two
\* decimals of the column, and total_fluid as it was.
FoodSubtractionClamped ==
  [][\A p \in Procs :
       /\ (pc[p] = "df_select" /\ pc'[p] = "df_delete") =>
            \E l \in foodLogsTable :
              /\ l.id = call[p].input.log_id
              /\ l.user_id = call[p].input.user_id
              /\ loc'[p].foodItem.id = l.food_item_id
              /\ loc'[p].portionSize = l.portion_size
              /\ loc'[p].summaryDate = UtcDay(l.consumed_at)
       /\ (pc[p] = "df_update" /\ pc'[p] # pc[p] /\ result'[p] = Returned(TRUE)) =>
            \A s \in SummariesFor(call[p].input.user_id, loc[p].summaryDate) :
              LET after == SummaryRow(s.id)'
                  removed == Contribution(loc[p].foodItem, loc[p].portionSize)
              IN /\ \A n \in Nutrients :
                      LET less == ParseFloat(s[n]) - removed[n]
                      IN after[n] = IF less > 0 THEN TwoDecimals(less) ELSE 0
                 /\ after.total_fluid = s.total_fluid]_vars

\* the summary rows of the user and date of the log a log call returns
SummariesOfLog(log) == SummariesFor(log.user_id, UtcDay(log.consumed_at))

\* the step adds one summary row, for the log's user and date
CreatedRows(log) ==
  {s \in dailySummariesTable' :
     /\ s \notin dailySummariesTable
     /\ s.user_id = log.user_id
     /\ s.summary_date = UtcDay(log.consumed_at)}

\* C24: with calls run one after another, a logFluid call that returns its log
\* either creates the summary row of the log's user and date with total_fluid =
\* volume and the four nutrient totals 0, or adds the volume to total_fluid of
\* the existing row and leaves its four nutrient totals as they were; a logFood
\* call that returns its log either creates the row with total_fluid = 0 or
\* leaves total_fluid of the existing row as it was.
ChannelSeparation ==
  [][\A p \in Procs :
       /\ (pc[p] = "lw_write" /\ pc'[p] # pc[p] /\ result'[p].kind = "value") =>
            LET log == result'[p].value
            IN IF SummariesOfLog(log) = {}
                 THEN /\ Cardinality(CreatedRows(log)) = 1
                      /\ \A s \in CreatedRows(log) :
                           /\ s.total_fluid = log.volume
                           /\ \A n \in Nutrients : s[n] = 0
                 ELSE \A s \in SummariesOfLog(log) :
                        /\ SummaryRow(s.id)'.total_fluid = s.total_fluid + log.volume
                        /\ \A n \in Nutrients : SummaryRow(s.id)'[n] = s[n]
       /\ (pc[p] = "lf_write" /\ pc'[p] # pc[p] /\ result'[p].kind = "value") =>
            LET log == result'[p].value
            IN IF SummariesOfLog(log) = {}
                 THEN /\ Cardinality(CreatedRows(log)) = 1
                      /\ \A s \in CreatedRows(log) : s.total_fluid = 0
                 ELSE \A s \in SummariesOfLog(log) :
                        SummaryRow(s.id)'.total_fluid = s.total_fluid]_vars

\* a logFood call has returned its log after updating a summary row that holds
\* fluid, and the row holds nutrients and fluid
FoodLoggedBesideFluid ==
  \E p \in Procs :
    /\ pc[p] = "done"
    /\ call[p].op = "logFood"
    /\ result[p].kind = "value"
    /\ \E s \in SummariesOfLog(result[p].value) :
         /\ s.total_fluid > 0
         /\ s.total_calories > 0
         /\ FluidLogsOn(s.user_id, s.summary_date) # {}
    /\ Cardinality(dailySummariesTable) = 1

\* C25: no step of a logFood, logFluid, deleteFoodLog, deleteFluidLog or
\* getUserDailyProgress call removes a daily summary row: every row is there in
\* the next state under the same id, user and date, whatever its totals.
SummariesNeverRemoved ==
  [][\A s \in dailySummariesTable :
       \E t \in dailySummariesTable' :
         /\ t.id = s.id
         /\ t.user_id = s.user_id
         /\ t.summary_date = s.summary_date]_vars

\* a delete call has returned true and the summary row of its user is left with
\* every total at 0 and no log of that user and date
EmptiedRowKept ==
  \E p \in Procs :
    /\ pc[p] = "done"
    /\ call[p].op \in {"deleteFoodLog", "deleteFluidLog"}
    /\ result[p] = Returned(TRUE)
    /\ \E s \in dailySummariesTable :
         /\ s.user_id = call[p].input.user_id
         /\ \A n \in Totals : s[n] = 0
         /\ FoodLogsOn(s.user_id, s.summary_date) = {}
         /\ FluidLogsOn(s.user_id, s.summary_date) = {}

DeleteOps == {"deleteFoodLog", "deleteFluidLog"}

\* the call is a delete call that removed its log row: it is past its delete
\* statement, or it has returned true
Reversing(p) ==
  /\ call[p].op \in DeleteOps
  /\ \/ pc[p] \in {"df_update", "dw_summary", "dw_update"}
     \/ pc[p] = "done" /\ result[p] = Returned(TRUE)

SameDelete(p, q) == call[p].op \in DeleteOps /\ call[p] = call[q]

\* C26: of two deleteFoodLog (or two deleteFluidLog) calls for one log id and
\* owner, running at the same time or not, at most one removes the log row, goes
\* on to the summary and returns true; a call whose delete statement finds the
\* row gone returns false there and subtracts nothing, and the call that removed
\* the row returns true. So the contribution is subtracted once.
ReversedAtMostOnce ==
  /\ [](\A p, q \in Procs : (p # q /\ SameDelete(p, q)) => ~(Reversing(p) /\ Reversing(q)))
  /\ [][\A p \in Procs :
          /\ (/\ pc[p] = "df_delete" /\ pc'[p] # pc[p]
              /\ FoodLogsMatching(call[p].input.log_id, call[p].input.user_id) = {}) =>
               /\ pc'[p] = "done" /\ result'[p] = Returned(FALSE)
               /\ dailySummariesTable' = dailySummariesTable
          /\ (/\ pc[p] = "dw_delete" /\ pc'[p] # pc[p]
              /\ FluidLogsMatching(call[p].input.log_id, call[p].input.user_id) = {}) =>
               /\ pc'[p] = "done" /\ result'[p] = Returned(FALSE)
               /\ dailySummariesTable' = dailySummariesTable
          /\ (pc[p] \in {"df_update", "dw_summary", "dw_update"} /\ pc'[p] = "done") =>
               result'[p] = Returned(TRUE)]_vars

\* two deleteFoodLog calls for one log both found it; one has removed it,
\* updated the summary and returned true, the other is at its delete statement
SecondDeleteComesLate ==
  \E p, q \in Procs :
    /\ p # q
    /\ call[p].op = "deleteFoodLog"
    /\ call[p] = call[q]
    /\ pc[p] = "done" /\ result[p] = Returned(TRUE)
    /\ pc[q] = "df_delete"
    /\ \E s \in dailySummariesTable :
         s.user_id = call[p].input.user_id /\ \A n \in Nutrients : s[n] = 0

\* both calls have ended, p with this operation and q with that one, and no
\* other process has made a call
BothDone(p, opP, q, opQ) ==
  /\ p # q
  /\ pc[p] = "done" /\ call[p].op = opP
  /\ pc[q] = "done" /\ call[q].op = opQ
  /\ \A r \in Procs \ {p, q} : pc[r] = "idle"

\* C27 (as the specification states it): two deleteFluidLog calls on two of the
\* three fluid logs of a user and date, each call running once and both
\* returning true, leave total_fluid at the total before them less both
\* volumes, which is the volume of the log that remains, in every interleaving.
ConcurrentFluidDeletionsCount ==
  \A p, q \in Procs :
    (/\ BothDone(p, "deleteFluidLog", q, "deleteFluidLog")
     /\ result[p] = Returned(TRUE) /\ result[q] = Returned(TRUE)) =>
      \A s \in dailySummariesTable :
        /\ s = SummaryAfter(0, 1)
        /\ s.total_fluid = FluidSum(FluidLogsOn(s.user_id, s.summary_date))

LoggedWhileDeleting(p, logOp, q, deleteOp) ==
  /\ BothDone(p, logOp, q, deleteOp)
  /\ result[p].kind = "value"
  /\ result[q] = Returned(TRUE)
  /\ call[q].input.log_id # result[p].value.id

\* C29 (as the specification states it): a logFood call and a deleteFoodLog
\* call of another, existing log of the same user and date (or a logFluid call
\* and such a deleteFluidLog call), each running once in any interleaving and
\* both succeeding, leave every total of the summary row equal to the sum of
\* the contributions of the logs that then exist.
LogAndDeleteReconcile ==
  \A p, q \in Procs :
    (\/ LoggedWhileDeleting(p, "logFood", q, "deleteFoodLog")
     \/ LoggedWhileDeleting(p, "logFluid", q, "deleteFluidLog")) =>
      \A s \in dailySummariesTable : HoldsSums(s)

FiniteNonNegative(pct) == pct.kind = "finite" /\ pct.n >= 0

\* C30 (as the specification states it): whenever getUserDailyProgress answers,
\* with goals that validation accepts (daily_calories > 0, the other four >= 0)
\* and a summary, if any, whose totals are >= 0, each of the five
\* progress_percentages is a finite non-negative integer.
PercentagesFinite ==
  \A p \in Procs :
    (/\ Answered(p)
     /\ \A g \in result[p].value.goals :
          /\ g.daily_calories > 0
          /\ \A f \in GoalFields : g[f] >= 0
     /\ \A s \in result[p].value.summary : \A n \in Totals : s[n] >= 0) =>
      LET pct == result[p].value.progress_percentages
      IN /\ FiniteNonNegative(pct.calories)
         /\ FiniteNonNegative(pct.protein)
         /\ FiniteNonNegative(pct.carbs)
         /\ FiniteNonNegative(pct.fats)
         /\ FiniteNonNegative(pct.fluid)
====
